---- MODULE Spec2Model ----
(***************************************************************************)
(* Model of kimbell_insights_ai_app.py: a Streamlit script that is re-run  *)
(* from the top on every user interaction.  The state is the Streamlit     *)
(* session state, the widget state of the page, the position of the        *)
(* running script, and the hosted assistant service (thread, run).         *)
(*                                                                         *)
(* Texts are strings.  Python's None and a missing session key are the     *)
(* two reserved strings None and Unset, which no text of the model equals. *)
(***************************************************************************)
EXTENDS Integers, Sequences, FiniteSets, TLC

VARIABLES
    analysis_output,        \* st.session_state.analysis_output
    followup_count,         \* st.session_state.followup_count
    conversation_history,   \* st.session_state.conversation_history
    csv_data,               \* st.session_state.csv_data
    analysis_thread_id,     \* st.session_state.analysis_thread_id
    last_reply,             \* st.session_state.last_reply
    rerun_requested,        \* "rerun_requested" in st.session_state
    selected_month,         \* value of the month selectbox
    input_key,              \* n of the text_input "followup_input_<n>" on the page
    input_text,             \* value typed into that text_input
    clicked,                \* the button whose click started this script run
    shown,                  \* widgets of the page the user can act on
    doc,                    \* the document offered for download
    last_error,             \* the exception the last script run ended with
    pending,                \* the click that arrived while the script was waiting
    pc,                     \* position of the script
    followup_prompt,        \* local followup_prompt of the running script
    run_status,             \* local run.status / followup_run.status
    status_seq,             \* statuses returned by runs.retrieve in this poll
    committed,              \* session state at the time a follow-up was submitted
    num_threads,            \* service: threads created so far
    thread_messages,        \* service: newest messages of the latest thread, most recent first
    svc_status              \* service: status of the run the script holds

session == <<analysis_output, followup_count, conversation_history, csv_data,
             analysis_thread_id, last_reply, rerun_requested>>
widgets == <<selected_month, input_key, input_text, clicked, shown, doc, last_error,
             pending>>
locals  == <<pc, followup_prompt, run_status, status_seq, committed>>
service == <<num_threads, thread_messages, svc_status>>
vars    == <<session, widgets, locals, service>>

----------------------------------------------------------------------------
(* Bounds of the model *)

\* analyses (threads) the user starts
MaxThreads == 2
\* service calls of a follow-up raise only while the history is shorter than this
MaxHistory == 4
\* status queries that find the run still unsettled
MaxPolls == 2
\* messages of the thread that are kept: the most recent ones
MaxMessages == 2

----------------------------------------------------------------------------
(* Values *)

None == "<None>"
Unset == "<Unset>"
NoThread == 0
NoKey == -1
NoDoc == [heading |-> "", paragraphs |-> <<>>, filename |-> ""]
NoCommit == [history |-> <<>>, count |-> -1, output |-> Unset, page |-> {}]

month_options == <<"2025-01", "2025-02", "2025-03", "2025-04">>
Months == {month_options[i] : i \in DOMAIN month_options}

FollowupLimit == 3
PreviewLines == 11

\* texts the user types as a follow-up question
Questions == {"Why?"}
\* texts the assistant answers the analysis request with: a summary, or nothing
AnalysisReplies == {"", "Summary"}
\* texts the assistant answers a follow-up question with
FollowupReplies == {"Answer"}

TerminalStatuses == {"completed", "failed", "cancelled"}
Statuses == {"queued", "in_progress", "completed", "failed", "cancelled", "expired"}

----------------------------------------------------------------------------
(* The warehouse table and pandas *)

RECURSIVE Rows(_)
Rows(n) == IF n = 0 THEN <<>> ELSE Append(Rows(n - 1), "Members,Search," \o ToString(n))

\* the warehouse table by month: one month with a short table, one with more
\* rows than the follow-up preview holds, one without rows, one without the
\* Spend column
Table ==
    [month \in Months |->
        CASE month = "2025-01" -> [columns |-> "Campaign_Group,Channel,Spend", rows |-> Rows(1)]
          [] month = "2025-02" -> [columns |-> "Campaign_Group,Channel,Spend", rows |-> Rows(PreviewLines)]
          [] month = "2025-03" -> [columns |-> "Campaign_Group,Channel,Spend", rows |-> <<>>]
          [] OTHER             -> [columns |-> "Campaign_Group,Channel", rows |-> Rows(1)]]

load_data(month) == Table[month]

HasRequiredColumns(df) == df.columns = "Campaign_Group,Channel,Spend"

DataAvailable_NonEmpty(df) == Len(df.rows) > 0

\* lines 57-61: the else branch is taken
DataAvailable(df) == Len(df.rows) > 0 /\ HasRequiredColumns(df)

RECURSIVE Join(_, _)
Join(lines, sep) ==
    IF Len(lines) = 0 THEN ""
    ELSE IF Len(lines) = 1 THEN lines[1]
    ELSE lines[1] \o sep \o Join(Tail(lines), sep)

\* the lines of df.to_csv(index=False): header, rows, and the empty piece
\* after the final newline
CsvLines(df) == <<df.columns>> \o df.rows \o <<"">>

to_csv(df) == Join(CsvLines(df), "\n")

\* the CSV text of each month's table
CsvTexts == [month \in Months |-> to_csv(Table[month])]

\* text.split("\n") for the texts to_csv produces
split(text) == CsvLines(Table[CHOOSE month \in Months : CsvTexts[month] = text])

Take(s, n) == SubSeq(s, 1, IF Len(s) < n THEN Len(s) ELSE n)

----------------------------------------------------------------------------
(* Texts the script builds *)

AnalysisPrompt(month, csv) ==
    "Here is the CSV data for " \o month \o ":\n\n" \o csv
        \o "\n\nPlease run the monthly marketing analysis."

SubmittedMarker_NoMonth(month) == "(CSV data submitted)"

\* line 125
SubmittedMarker(month) == "(CSV data submitted for " \o month \o ")"

preview_csv(csv) == Join(Take(split(csv), PreviewLines), "\n")

FollowupPrompt(month, csv, followup) ==
    "Reminder: this follow-up relates to the CSV data for " \o month \o ":\n\n"
        \o preview_csv(csv) \o "\n\nQuestion: " \o followup

ReplyBanner(count, reply) == "#### GPT Reply #" \o ToString(count) \o "\n\n" \o reply

Turn(role, content) == [role |-> role, content |-> content]

\* Python truth value of a session text
Truthy(text) == text # None /\ text # Unset /\ text # ""

----------------------------------------------------------------------------
(* Conditions of the script *)

CanRunAnalysis_Falsy(output) == ~Truthy(output)

\* line 95: the Run Analysis button is offered
CanRunAnalysis(output) == output = None

\* line 132: the output, follow-up, reset and export section is shown
ShowsOutput(output) == Truthy(output)

CanAskFollowup_OffByOne(count) == count <= FollowupLimit

\* line 140: the follow-up quota is not used up
CanAskFollowup(count) == count < FollowupLimit

NextCount_ByTwo(count) == count + 2

\* line 170: followup_count += 1
NextCount(count) == count + 1

LoopDone_NoCancelled(status) == status \in {"completed", "failed"}

LoopDone_AlsoExpired(status) == status \in TerminalStatuses \cup {"expired"}

\* lines 116 and 159: the poll loop stops on these statuses
LoopDone(status) == status \in TerminalStatuses

\* messages.data[0].content[0].text.value of a list that is most recent first
MostRecentText(messages) == messages[1].text

\* line 141: the value of the text_input whose key is followup_input_<count>,
\* when the page holds the text_input of key followup_input_<key> with this text
FollowupInput(key, text, count) == IF key = count THEN text ELSE ""

Message(role, text) == [role |-> role, text |-> text]

\* the thread after a message is added to it; the script only ever reads the
\* most recent message, the ones older than the newest MaxMessages are dropped
Added(message, messages) == Take(<<message>> \o messages, MaxMessages)

----------------------------------------------------------------------------
Init ==
    /\ analysis_output = None
    /\ followup_count = 0
    /\ conversation_history = <<>>
    /\ csv_data = Unset
    /\ analysis_thread_id = NoThread
    /\ last_reply = Unset
    /\ rerun_requested = FALSE
    /\ selected_month = month_options[1]
    /\ input_key = NoKey
    /\ input_text = ""
    /\ clicked = "none"
    /\ shown = {}
    /\ doc = NoDoc
    /\ last_error = "none"
    /\ pending = "none"
    /\ pc = "start"
    /\ followup_prompt = ""
    /\ run_status = "none"
    /\ status_seq = <<>>
    /\ committed = NoCommit
    /\ num_threads = 0
    /\ thread_messages = <<>>
    /\ svc_status = "none"

----------------------------------------------------------------------------
(* One run of the script, from line 55 to its end or to its first service   *)
(* call, with the month selected, the button clicked, and the text_input    *)
(* (key, text) of the page                                                  *)

\* the script run is over: the page is what this run rendered
PageIs(month, widgetsShown, key, text, document) ==
    /\ pc' = "idle"
    /\ selected_month' = month
    /\ clicked' = "none"
    /\ shown' = widgetsShown
    /\ input_key' = key
    /\ input_text' = text
    /\ doc' = document
    /\ last_error' = "none"
    /\ pending' = "none"

\* the script run goes on at position next
GoesOn(month, click, widgetsShown, key, text, next) ==
    /\ pc' = next
    /\ selected_month' = month
    /\ clicked' = click
    /\ shown' = widgetsShown
    /\ input_key' = key
    /\ input_text' = text
    /\ doc' = NoDoc
    /\ last_error' = "none"
    /\ pending' = "none"

\* lines 57-60: nothing below the warning is rendered
DataUnavailable(month) ==
    /\ ~DataAvailable(load_data(month))
    /\ PageIs(month, {}, NoKey, "", NoDoc)
    /\ UNCHANGED <<session, followup_prompt, run_status, status_seq, committed, service>>

\* lines 95-99: the button was clicked, the snapshot is taken
BeginRunAnalysis(month, click) ==
    /\ DataAvailable(load_data(month))
    /\ CanRunAnalysis(analysis_output)
    /\ click = "run"
    /\ csv_data' = to_csv(load_data(month))
    /\ GoesOn(month, click, {"run"}, NoKey, "", "ra_thread")
    /\ UNCHANGED <<analysis_output, followup_count, conversation_history,
                   analysis_thread_id, last_reply, rerun_requested,
                   followup_prompt, run_status, status_seq, committed, service>>

\* line 132 is false: nothing further is rendered
ShowNothing(month, rendered) ==
    /\ ~ShowsOutput(analysis_output)
    /\ PageIs(month, rendered, NoKey, "", NoDoc)
    /\ UNCHANGED <<session, followup_prompt, run_status, status_seq, committed, service>>

\* lines 133-135: the flag left by a follow-up restarts the script
RerunRequested(month) ==
    /\ ShowsOutput(analysis_output)
    /\ rerun_requested
    /\ rerun_requested' = FALSE
    /\ GoesOn(month, "none", {}, NoKey, "", "start")
    /\ UNCHANGED <<analysis_output, followup_count, conversation_history, csv_data,
                   analysis_thread_id, last_reply, followup_prompt, run_status,
                   status_seq, committed, service>>

\* lines 140-146: a question is in the input, the user turn is appended
BeginFollowup(month, click, key, text, rendered) ==
    /\ ShowsOutput(analysis_output)
    /\ ~rerun_requested
    /\ CanAskFollowup(followup_count)
    /\ FollowupInput(key, text, followup_count) # ""
    /\ LET prompt == FollowupPrompt(month, csv_data,
                                    FollowupInput(key, text, followup_count)) IN
         /\ followup_prompt' = prompt
         /\ conversation_history' = Append(conversation_history, Turn("user", prompt))
    /\ committed' = [history |-> conversation_history, count |-> followup_count,
                     output |-> analysis_output, page |-> shown]
    /\ GoesOn(month, click, rendered \cup {"followup"}, key, text, "fu_msg")
    /\ UNCHANGED <<analysis_output, followup_count, csv_data, analysis_thread_id,
                   last_reply, rerun_requested, run_status, status_seq, service>>

\* lines 140-180 without a question: input or limit notice, and the last reply
NoFollowup(key, text) ==
    /\ ShowsOutput(analysis_output)
    /\ ~rerun_requested
    /\ ~(CanAskFollowup(followup_count) /\ FollowupInput(key, text, followup_count) # "")

\* the key of the text_input this run rendered
RenderedKey == IF CanAskFollowup(followup_count) THEN followup_count ELSE NoKey

\* the widgets of the whole section
Section(rendered) ==
    rendered \cup {"reset", "export"}
             \cup (IF CanAskFollowup(followup_count) THEN {"followup"} ELSE {})

ResetAnalysis_KeepsCount(month, click, key, text) ==
    /\ NoFollowup(key, text)
    /\ click = "reset"
    /\ analysis_output' = None
    /\ conversation_history' = <<>>
    /\ last_reply' = None
    /\ csv_data' = None
    /\ GoesOn(month, "none", {}, RenderedKey, "", "start")
    /\ UNCHANGED <<followup_count, analysis_thread_id, rerun_requested,
                   followup_prompt, run_status, status_seq, committed, service>>

ResetAnalysis_KeepsHistory(month, click, key, text) ==
    /\ NoFollowup(key, text)
    /\ click = "reset"
    /\ analysis_output' = None
    /\ followup_count' = 0
    /\ last_reply' = None
    /\ csv_data' = None
    /\ GoesOn(month, "none", {}, RenderedKey, "", "start")
    /\ UNCHANGED <<conversation_history, analysis_thread_id, rerun_requested,
                   followup_prompt, run_status, status_seq, committed, service>>

\* lines 183-189
ResetAnalysis(month, click, key, text) ==
    /\ NoFollowup(key, text)
    /\ click = "reset"
    /\ analysis_output' = None
    /\ followup_count' = 0
    /\ conversation_history' = <<>>
    /\ last_reply' = None
    /\ csv_data' = None
    /\ GoesOn(month, "none", {}, RenderedKey, "", "start")
    /\ UNCHANGED <<analysis_thread_id, rerun_requested, followup_prompt, run_status,
                   status_seq, committed, service>>

Paragraph_UserOnly(msg) ==
    IF msg.role = "user" THEN <<"User:\n" \o msg.content>> ELSE <<>>

\* the label of a turn in the document, lines 197-200
Paragraph(msg) ==
    IF msg.role = "user" THEN <<"User:\n" \o msg.content>>
    ELSE IF msg.role = "assistant" THEN <<"Kimbell Analysis:\n" \o msg.content>>
    ELSE <<>>

RECURSIVE Paragraphs(_)
Paragraphs(history) ==
    IF history = <<>> THEN <<>>
    ELSE Paragraph(Head(history)) \o Paragraphs(Tail(history))

\* lines 192-205
ExportDocx(month, click, key, text, rendered) ==
    /\ NoFollowup(key, text)
    /\ click = "export"
    /\ PageIs(month, Section(rendered), RenderedKey, "",
              [heading |-> "Marketing Analysis - " \o month,
               paragraphs |-> Paragraphs(conversation_history),
               filename |-> "Analysis_" \o month \o "_<timestamp>.docx"])
    /\ UNCHANGED <<session, followup_prompt, run_status, status_seq, committed, service>>

\* no button of the section was clicked
ShowPage(month, click, key, text, rendered) ==
    /\ NoFollowup(key, text)
    /\ click \notin {"reset", "export"}
    /\ PageIs(month, Section(rendered), RenderedKey, "", NoDoc)
    /\ UNCHANGED <<session, followup_prompt, run_status, status_seq, committed, service>>

\* lines 131-205
OutputSection(month, click, key, text, rendered) ==
    \/ ShowNothing(month, rendered)
    \/ RerunRequested(month)
    \/ BeginFollowup(month, click, key, text, rendered)
    \/ ResetAnalysis(month, click, key, text)
    \/ ExportDocx(month, click, key, text, rendered)
    \/ ShowPage(month, click, key, text, rendered)

\* lines 55-205
RunScript(month, click, key, text) ==
    \/ DataUnavailable(month)
    \/ BeginRunAnalysis(month, click)
    \/ /\ DataAvailable(load_data(month))
       /\ ~(CanRunAnalysis(analysis_output) /\ click = "run")
       /\ OutputSection(month, click, key, text,
                        IF CanRunAnalysis(analysis_output) THEN {"run"} ELSE {})

----------------------------------------------------------------------------
(* The user acts on the page; Streamlit runs the script from the top *)

SelectMonth(month) ==
    /\ pc = "idle"
    /\ month # selected_month
    /\ RunScript(month, "none", input_key, input_text)

SelectMetric ==
    /\ pc = "idle"
    /\ RunScript(selected_month, "none", input_key, input_text)

ClickRunAnalysis ==
    /\ pc = "idle"
    /\ "run" \in shown
    /\ num_threads < MaxThreads \/ analysis_output # None
    /\ RunScript(selected_month, "run", input_key, input_text)

TypeFollowup(text) ==
    /\ pc = "idle"
    /\ "followup" \in shown
    /\ text # input_text
    /\ RunScript(selected_month, "none", input_key, text)

ClickReset ==
    /\ pc = "idle"
    /\ "reset" \in shown
    /\ RunScript(selected_month, "reset", input_key, input_text)

ClickExport ==
    /\ pc = "idle"
    /\ "export" \in shown
    /\ RunScript(selected_month, "export", input_key, input_text)

\* the first run of the session, and the run st.rerun() starts
Rerun ==
    /\ pc = "start"
    /\ RunScript(selected_month, clicked, input_key, input_text)

----------------------------------------------------------------------------
(* Calls of the assistant service, lines 102-121 and 148-167 *)

ThreadsCreate_NotStored ==
    /\ pc = "ra_thread"
    /\ num_threads' = num_threads + 1
    /\ thread_messages' = <<>>
    /\ svc_status' = "none"
    /\ pc' = "ra_msg"
    /\ UNCHANGED <<session, widgets, followup_prompt, run_status, status_seq, committed>>

\* lines 102-103
ThreadsCreate ==
    /\ pc = "ra_thread"
    /\ num_threads' = num_threads + 1
    /\ thread_messages' = <<>>
    /\ svc_status' = "none"
    /\ analysis_thread_id' = num_threads + 1
    /\ pc' = "ra_msg"
    /\ UNCHANGED <<analysis_output, followup_count, conversation_history, csv_data,
                   last_reply, rerun_requested, widgets, followup_prompt,
                   run_status, status_seq, committed>>

\* lines 105-109 and 148-152
MessagesCreate ==
    /\ pc \in {"ra_msg", "fu_msg"}
    /\ thread_messages' =
          Added(Message("user", IF pc = "ra_msg"
                                THEN AnalysisPrompt(selected_month, csv_data)
                                ELSE followup_prompt), thread_messages)
    /\ pc' = IF pc = "ra_msg" THEN "ra_run" ELSE "fu_run"
    /\ UNCHANGED <<session, widgets, followup_prompt, run_status, status_seq,
                   committed, num_threads, svc_status>>

\* lines 111-114 and 154-157
RunsCreate ==
    /\ pc \in {"ra_run", "fu_run"}
    /\ svc_status' = "queued"
    /\ run_status' = "queued"
    /\ status_seq' = <<>>
    /\ pc' = IF pc = "ra_run" THEN "ra_poll" ELSE "fu_poll"
    /\ UNCHANGED <<session, widgets, followup_prompt, committed, num_threads,
                   thread_messages>>

\* lines 116-118 and 159-164: one more turn of the loop
RunsRetrieve ==
    /\ pc \in {"ra_poll", "fu_poll"}
    /\ ~LoopDone(run_status)
    /\ Len(status_seq) < MaxPolls \/ svc_status \in TerminalStatuses
    /\ run_status' = svc_status
    /\ status_seq' = Append(status_seq, svc_status)
    /\ UNCHANGED <<session, widgets, pc, followup_prompt, committed, service>>

\* lines 120-127: the loop is left, the latest message becomes the analysis;
\* the script goes on at line 131
CommitAnalysis ==
    /\ pc = "ra_poll"
    /\ LoopDone(run_status)
    /\ LET result == MostRecentText(thread_messages) IN
         /\ analysis_output' = result
         /\ conversation_history' =
               <<Turn("user", SubmittedMarker(selected_month)),
                 Turn("assistant", result)>>
    /\ run_status' = "none"
    /\ status_seq' = <<>>
    /\ svc_status' = "none"
    /\ pc' = "show"
    /\ UNCHANGED <<followup_count, csv_data, analysis_thread_id, last_reply,
                   rerun_requested, widgets, followup_prompt, committed,
                   num_threads, thread_messages>>

\* lines 131-205 of the run that made the analysis
AfterAnalysis ==
    /\ pc = "show"
    /\ OutputSection(selected_month, clicked, input_key, input_text, shown)

\* the script run has ended: the page waits for the user, or the click that
\* arrived during the run starts the next run
RunEnds ==
    /\ pc' = IF pending = "none" THEN "idle" ELSE "start"
    /\ clicked' = pending
    /\ pending' = "none"

\* lines 166-174: the loop is left, the latest message becomes the reply,
\* st.stop() ends the run
CommitFollowup ==
    /\ pc = "fu_poll"
    /\ LoopDone(run_status)
    /\ LET reply == MostRecentText(thread_messages) IN
         /\ conversation_history' = Append(conversation_history, Turn("assistant", reply))
         /\ followup_count' = NextCount(followup_count)
         /\ last_reply' = ReplyBanner(NextCount(followup_count), reply)
    /\ rerun_requested' = TRUE
    /\ committed' = NoCommit
    /\ followup_prompt' = ""
    /\ run_status' = "none"
    /\ status_seq' = <<>>
    /\ svc_status' = "none"
    /\ RunEnds
    /\ UNCHANGED <<analysis_output, csv_data, analysis_thread_id, selected_month,
                   input_key, input_text, shown, doc, last_error, num_threads,
                   thread_messages>>

\* any of the service calls raises: Streamlit shows the exception and the
\* script run ends there, and with it the script's hold on the run
ServiceRaises ==
    /\ pc \in {"ra_thread", "ra_msg", "ra_run", "ra_poll", "fu_msg", "fu_run", "fu_poll"}
    /\ pc \in {"fu_msg", "fu_run", "fu_poll"} => Len(conversation_history) < MaxHistory
    /\ last_error' = "InferenceError"
    /\ committed' = NoCommit
    /\ followup_prompt' = ""
    /\ run_status' = "none"
    /\ status_seq' = <<>>
    /\ svc_status' = "none"
    /\ RunEnds
    /\ UNCHANGED <<session, selected_month, input_key, input_text, shown, doc,
                   num_threads, thread_messages>>

\* line 183, while the script waits in the loop of lines 159-164: the page
\* still shows the widgets of the run before, and the user clicks its Reset
\* button; Streamlit holds the click until the running script yields
ResetArrives ==
    /\ pc = "fu_poll"
    /\ pending = "none"
    /\ "reset" \in committed.page
    /\ Len(conversation_history) < MaxHistory
    /\ pending' = "reset"
    /\ UNCHANGED <<session, selected_month, input_key, input_text, clicked, shown,
                   doc, last_error, locals, service>>

\* lines 162 and 166: reading st.session_state hands control to Streamlit,
\* which may end the script run there for the click it holds; whether it
\* does is up to the Streamlit release, so the loop may as well go on
Interrupted ==
    /\ pc = "fu_poll"
    /\ pending # "none"
    /\ committed' = NoCommit
    /\ followup_prompt' = ""
    /\ run_status' = "none"
    /\ status_seq' = <<>>
    /\ svc_status' = "none"
    /\ RunEnds
    /\ UNCHANGED <<session, selected_month, input_key, input_text, shown, doc,
                   last_error, num_threads, thread_messages>>

\* the service works on the run; a completed run has added its reply to the thread
ServiceAdvance ==
    /\ \/ /\ svc_status = "queued"
          /\ svc_status' = "in_progress"
          /\ UNCHANGED thread_messages
       \/ /\ svc_status = "in_progress"
          /\ \E reply \in (IF pc = "ra_poll" THEN AnalysisReplies ELSE FollowupReplies) :
                /\ svc_status' = "completed"
                /\ thread_messages' = Added(Message("assistant", reply), thread_messages)
       \/ /\ svc_status = "in_progress"
          /\ svc_status' \in {"failed", "cancelled", "expired"}
          /\ UNCHANGED thread_messages
    /\ UNCHANGED <<session, widgets, locals, num_threads>>

----------------------------------------------------------------------------
Next ==
    \/ \E month \in Months : SelectMonth(month)
    \/ SelectMetric
    \/ ClickRunAnalysis
    \/ \E text \in Questions \cup {""} : TypeFollowup(text)
    \/ ClickReset
    \/ ClickExport
    \/ Rerun
    \/ ThreadsCreate
    \/ MessagesCreate
    \/ RunsCreate
    \/ RunsRetrieve
    \/ CommitAnalysis
    \/ AfterAnalysis
    \/ CommitFollowup
    \/ ServiceRaises
    \/ ServiceAdvance
    \/ ResetArrives
    \/ Interrupted

Spec == Init /\ [][Next]_vars

\* the session of a user who leaves the month selector at its first value;
\* the selector takes no part in the poll loops
LiveNext ==
    \/ SelectMetric
    \/ ClickRunAnalysis
    \/ \E text \in Questions \cup {""} : TypeFollowup(text)
    \/ ClickReset
    \/ ClickExport
    \/ Rerun
    \/ ThreadsCreate
    \/ MessagesCreate
    \/ RunsCreate
    \/ RunsRetrieve
    \/ CommitAnalysis
    \/ AfterAnalysis
    \/ CommitFollowup
    \/ ServiceRaises
    \/ ServiceAdvance
    \/ ResetArrives
    \/ Interrupted

\* the script thread is scheduled: a poll loop that can take its next turn,
\* or a script that has left its loop, goes on
LiveSpec ==
    /\ Init
    /\ [][LiveNext]_vars
    /\ WF_vars(RunsRetrieve \/ CommitAnalysis \/ CommitFollowup)

----------------------------------------------------------------------------
(* Properties *)

TypeOK ==
    /\ followup_count \in 0..FollowupLimit
    /\ selected_month \in Months
    /\ pc \in {"start", "idle", "show", "ra_thread", "ra_msg", "ra_run", "ra_poll",
               "fu_msg", "fu_run", "fu_poll"}
    /\ shown \subseteq {"run", "followup", "reset", "export"}
    /\ svc_status \in Statuses \cup {"none"}
    /\ pending \in {"none", "reset"}
    /\ pending # "none" => pc = "fu_poll"
    /\ pc \in {"fu_msg", "fu_run", "fu_poll"} => analysis_thread_id = num_threads

\* positions of the script inside the initial analysis and inside a follow-up
InAnalysis == pc \in {"ra_thread", "ra_msg", "ra_run", "ra_poll"}
InFollowup == pc \in {"fu_msg", "fu_run", "fu_poll"}

\* a step that is a reset: the analysis output goes from set to None
ResetStep == analysis_output # None /\ analysis_output' = None

\* C1: between two resets the initial analysis runs at most once.  The script
\* is inside the initial analysis only while analysis_output is None; a click
\* on a Run Analysis button still on the page when analysis_output is set
\* changes no session state, calls no service and starts no analysis; and
\* an analysis output, once set, only changes by being reset to None.
C1_AnalysisAtMostOnce ==
    /\ [](InAnalysis => analysis_output = None)
    /\ [][(ClickRunAnalysis /\ analysis_output # None)
            => (UNCHANGED <<session, service>> /\ ~InAnalysis')]_vars
    /\ [][analysis_output # None => analysis_output' \in {analysis_output, None}]_vars

\* the analysis is set and the Run Analysis button of the run that made it is
\* still on the page, so a second request can be made
C1_Witness ==
    /\ pc = "idle"
    /\ analysis_output # None
    /\ "run" \in shown
    /\ num_threads = 1

\* a follow-up ends without an answer: its run ended failed or cancelled, or
\* a service call raised
FollowupFails ==
    /\ InFollowup
    /\ ~InFollowup'
    /\ run_status \in {"failed", "cancelled"} \/ last_error' = "InferenceError"

\* C2: a follow-up whose inference fails never increments followupCount.
C2_FailedFollowupKeepsCount ==
    [][FollowupFails => followup_count' = followup_count]_vars

\* C3: when the initial analysis job ends failed or cancelled, the outcome is
\* an AnalysisJobError carrying that status, analysisOutput stays None and
\* history stays empty.
C3_FailedJobLeavesNoAnalysis ==
    [][(pc = "ra_poll" /\ run_status \in {"failed", "cancelled"} /\ pc' # "ra_poll")
         => /\ last_error' = "AnalysisJobError(" \o run_status \o ")"
            /\ analysis_output' = None
            /\ conversation_history' = <<>>]_vars

\* the assistant turns of the follow-ups in the history
FollowupAnswers ==
    {i \in 3..Len(conversation_history) :
        /\ conversation_history[i].role = "assistant"
        /\ conversation_history[i].content \in FollowupReplies}

\* C4: every follow-up request (message posted, run created) is issued with
\* analysisOutput set and followupCount < 3; a completed follow-up raises
\* the count by one and never above 3, so at most 3 are answered; and with
\* followupCount = 3 the script is in no follow-up.
C4_FollowupsWithinQuota ==
    /\ [](InFollowup => (Truthy(analysis_output) /\ followup_count < FollowupLimit))
    /\ [][((MessagesCreate \/ RunsCreate) /\ InFollowup)
            => (analysis_output # None /\ followup_count < FollowupLimit)]_vars
    /\ [][(CommitFollowup /\ run_status = "completed")
            => (followup_count' = followup_count + 1
                /\ followup_count' <= FollowupLimit)]_vars
    /\ [](Cardinality(FollowupAnswers) <= FollowupLimit)

\* three follow-ups of one analysis were answered
C4_Witness ==
    /\ followup_count = FollowupLimit
    /\ Cardinality(FollowupAnswers) = FollowupLimit
    /\ Len(conversation_history) = 2 + 2 * FollowupLimit

\* C5: reset is total and atomic.  The step that clears analysis_output also
\* clears followup_count, the history and the snapshot; in no state is the
\* output None with a non-zero count or a non-empty history; and on the page
\* of a session without analysis whose month has data, Run Analysis is offered.
C5_ResetTotalAtomic ==
    /\ [][ResetStep => (/\ followup_count' = 0
                        /\ conversation_history' = <<>>
                        /\ csv_data' = None)]_vars
    /\ [](analysis_output = None
            => (followup_count = 0 /\ conversation_history = <<>>))
    /\ []((pc = "idle" /\ analysis_output = None
             /\ DataAvailable(load_data(selected_month)))
            => "run" \in shown)

\* a reset has happened and the Run Analysis button is offered again
C5_Witness ==
    /\ pc = "idle"
    /\ analysis_output = None
    /\ csv_data = None
    /\ followup_count = 0
    /\ conversation_history = <<>>
    /\ "run" \in shown

\* C6: reset also clears the job handle: right after a reset the stored
\* analysis thread id is unset.
C6_ResetClearsThread ==
    [][ResetStep => analysis_thread_id' = NoThread]_vars

\* C7: a follow-up of which a service call raises leaves history,
\* followupCount and analysisOutput as they were when it was submitted.
C7_FailureLeavesStateUnchanged ==
    [][(InFollowup /\ last_error' = "InferenceError")
         => /\ conversation_history' = committed.history
            /\ followup_count' = committed.count
            /\ analysis_output' = committed.output]_vars

Polling == pc \in {"ra_poll", "fu_poll"}

\* C8: the poller queries the status until the first status in {completed,
\* failed, cancelled} and not after it: of the statuses queried only the last
\* can be one of these, the loop is left only on one of these (a script run
\* that an exception or Streamlit ends leaves no loop), and the
\* number of queries is the position of that status; on completed the text
\* taken is that of the reply the run added to the thread.
C8_PollUntilFirstTerminal ==
    /\ [](Polling =>
            /\ \A i \in 1..(Len(status_seq) - 1) : status_seq[i] \notin TerminalStatuses
            /\ Len(status_seq) > 0 => run_status = status_seq[Len(status_seq)])
    /\ [][(Polling /\ pc' # pc /\ last_error' = "none" /\ ~Interrupted)
            => (/\ Len(status_seq) > 0
                /\ status_seq[Len(status_seq)] \in TerminalStatuses)]_vars
    /\ [][(Polling /\ status_seq' # status_seq /\ pc' = pc)
            => (run_status \notin TerminalStatuses
                /\ Len(status_seq') = Len(status_seq) + 1)]_vars
    /\ [][(pc = "ra_poll" /\ run_status = "completed" /\ pc' = "show")
            => (/\ thread_messages[1].role = "assistant"
                /\ analysis_output' = thread_messages[1].text)]_vars
    /\ [][(CommitFollowup /\ run_status = "completed")
            => (/\ thread_messages[1].role = "assistant"
                /\ conversation_history'[Len(conversation_history')].content
                      = thread_messages[1].text)]_vars

\* the statuses queried were in-progress, in-progress, completed
C8_Witness ==
    /\ Polling
    /\ status_seq = <<"in_progress", "in_progress", "completed">>
    /\ run_status = "completed"

\* C9: whenever an analysis has been produced, Reset is available on the page.
C9_ResetAlwaysAvailable ==
    (pc = "idle" /\ analysis_output # None) => "reset" \in shown

\* C10: followupCount is in [0,3], and every step other than a reset leaves it
\* unchanged or raises it by exactly 1.
C10_CountBoundedMonotone ==
    /\ [](followup_count \in 0..FollowupLimit)
    /\ [][\/ followup_count' = followup_count
          \/ followup_count' = followup_count + 1
          \/ ResetStep /\ followup_count' = 0]_vars

\* the quota is used up: the page shows the limit notice instead of the input
C10_Witness ==
    /\ pc = "idle"
    /\ followup_count = FollowupLimit
    /\ "followup" \notin shown
    /\ "reset" \in shown

\* the dataset of the month is empty or lacks a required column
Unusable(month) ==
    \/ Table[month].rows = <<>>
    \/ Table[month].columns \notin {"Campaign_Group,Channel,Spend"}

\* C11: with a dataset that is empty or lacks the required columns no
\* inference call is attempted.  The script is never inside the analysis or a
\* follow-up while the dataset of the selected month is unusable, so no
\* thread is created, no message posted, no run created and no status
\* queried for it; and a script run for such a month ends at once, leaving
\* the session and the service as they were.
C11_NoInferenceWithoutData ==
    /\ []((InAnalysis \/ InFollowup) => ~Unusable(selected_month))
    /\ [][(ThreadsCreate \/ MessagesCreate \/ RunsCreate \/ RunsRetrieve)
            => ~Unusable(selected_month)]_vars
    /\ [][(pc \in {"idle", "start"} /\ Unusable(selected_month'))
            => (pc' = "idle" /\ UNCHANGED <<session, service>>)]_vars

\* the analysis is shown and the quota is not used up, the user has moved to
\* a month without usable data: the page shows the warning only
C11_Witness ==
    /\ pc = "idle"
    /\ Unusable(selected_month)
    /\ Truthy(analysis_output)
    /\ followup_count < FollowupLimit
    /\ shown = {}

\* s is a prefix of t
IsPrefix(s, t) == Len(s) <= Len(t) /\ SubSeq(t, 1, Len(s)) = s

\* C12: the history is append-only until reset: every step that is not a
\* reset leaves the old history as a prefix of the new one, and the initial
\* analysis seeds the history only when it is empty.
C12_HistoryAppendOnly ==
    /\ [][ResetStep \/ IsPrefix(conversation_history, conversation_history')]_vars
    /\ [][CommitAnalysis => conversation_history = <<>>]_vars

\* a second analysis, after a reset, has seeded the history again and a
\* follow-up was appended to it
C12_Witness ==
    /\ num_threads = 2
    /\ analysis_thread_id = 2
    /\ Len(conversation_history) >= 4
    /\ conversation_history[2].role = "assistant"

\* C13: after a successful initial analysis analysis_output is the text the
\* completed run added to the thread, and the history is exactly two turns:
\* the user marker naming the selected month, then an assistant turn holding
\* analysis_output.
C13_AnalysisSeedsTwoTurns ==
    [][(pc = "ra_poll" /\ run_status = "completed" /\ pc' # "ra_poll"
          /\ last_error' = "none")
         => (/\ thread_messages[1].role = "assistant"
             /\ analysis_output' = thread_messages[1].text
             /\ conversation_history' =
                   <<[role |-> "user",
                      content |-> "(CSV data submitted for " \o selected_month \o ")"],
                     [role |-> "assistant", content |-> analysis_output']>>
             /\ csv_data' = CsvTexts[selected_month])]_vars

\* the analysis of 2025-02 has just been stored
C13_Witness ==
    /\ pc = "show"
    /\ selected_month = "2025-02"
    /\ analysis_output = "Summary"
    /\ Len(conversation_history) = 2

\* the label of a role in the document
Label(role) == IF role = "user" THEN "User" ELSE "Kimbell Analysis"

\* C14: the exported document has one title heading and one paragraph per
\* turn of the history, in order, labelled User for a user turn and with the
\* product name for an assistant turn; the export leaves history, count and
\* analysis output as they were.
C14_ExportOneParagraphPerTurn ==
    /\ [](doc # NoDoc =>
            /\ doc.heading # ""
            /\ Len(doc.paragraphs) = Len(conversation_history)
            /\ \A i \in 1..Len(conversation_history) :
                  /\ conversation_history[i].role \in {"user", "assistant"}
                  /\ doc.paragraphs[i] =
                        Label(conversation_history[i].role) \o ":\n"
                           \o conversation_history[i].content)
    /\ [][doc' # NoDoc
            => UNCHANGED <<conversation_history, followup_count, analysis_output>>]_vars

\* a history of the analysis and one answered follow-up was exported
C14_Witness ==
    /\ doc # NoDoc
    /\ Len(doc.paragraphs) = 4
    /\ followup_count = 1

\* a Reset click arrived during the poll of the running script
ResetArrived == Polling /\ pending = "reset"

\* C16: a reset that arrives while a poll is in flight stops the status
\* queries and discards the stale handle: once it has arrived no further
\* status is queried for the run, the run's reply is written neither to the
\* analysis output nor to the history, and when the script run ends the
\* stored thread handle is unset.
C16_ResetCancelsPoll ==
    /\ [][ResetArrived => ~RunsRetrieve]_vars
    /\ [][ResetArrived => (/\ analysis_output' = analysis_output
                           /\ conversation_history' = conversation_history)]_vars
    /\ [][(ResetArrived /\ pc' # pc) => analysis_thread_id' = NoThread]_vars

\* C15: under fair scheduling of the poll loop, once the job reports
\* completed, failed or cancelled the polling of the initial analysis or of
\* the follow-up ends; the loop is left on these three statuses only, and a
\* job that has settled as expired is polled on: the script stays in the
\* loop unless an exception or Streamlit ends the script run.
C15_PollTerminates ==
    /\ (Polling /\ svc_status \in {"completed", "failed", "cancelled"}) ~> ~Polling
    /\ [][(CommitAnalysis \/ CommitFollowup)
            => run_status \in {"completed", "failed", "cancelled"}]_vars
    /\ [][(Polling /\ svc_status = "expired")
            => (Polling' \/ last_error' = "InferenceError" \/ Interrupted)]_vars
    /\ []((Polling /\ svc_status = "expired" /\ Len(status_seq) < MaxPolls)
            => ENABLED RunsRetrieve)

\* the job of a follow-up has just been cancelled, the loop has not yet
\* queried that status
C15_Witness ==
    /\ pc = "fu_poll"
    /\ svc_status = "cancelled"
    /\ run_status = "in_progress"

\* the month whose dataset the initial analysis captured
SnapshotMonth == CHOOSE month \in Months : CsvTexts[month] = csv_data

\* C17: every follow-up prompt, and the heading and the filename of every
\* export, names the month whose dataset snapshot the initial analysis
\* captured, whatever the month selector shows now.
C17_PromptsNameSnapshotMonth ==
    /\ InFollowup =>
          \E question \in Questions :
              followup_prompt =
                  "Reminder: this follow-up relates to the CSV data for "
                     \o SnapshotMonth \o ":\n\n" \o preview_csv(csv_data)
                     \o "\n\nQuestion: " \o question
    /\ doc # NoDoc =>
          /\ doc.heading = "Marketing Analysis - " \o SnapshotMonth
          /\ doc.filename = "Analysis_" \o SnapshotMonth \o "_<timestamp>.docx"

\* a script run begins a follow-up: the user turn is appended, the question
\* is about to be posted
FollowupBegins == ~InFollowup /\ InFollowup'

\* C18: each submitted question triggers at most one inference run: a
\* follow-up begins only in the script run caused by the user submitting a
\* question in the text input, never in a run caused by another interaction
\* (month or metric change, a button, the rerun flag), so no question is
\* posted or appended a second time.
C18_QuestionPostedOnce ==
    [][FollowupBegins => (pc = "idle" /\ input_text' # input_text)]_vars

\* C19: while the analysis output is set and shown, the snapshot csv_data is
\* a text and analysis_thread_id is the thread the initial analysis created,
\* so a follow-up reads neither a missing snapshot nor a missing handle; and
\* while the analysis output is None the history is empty and the count 0.
C19_AnalysisHasSnapshotAndThread ==
    /\ Truthy(analysis_output) =>
          /\ csv_data \notin {None, Unset}
          /\ \E month \in Months : csv_data = CsvTexts[month]
          /\ analysis_thread_id # NoThread
          /\ analysis_thread_id = num_threads
    /\ InFollowup => (Truthy(analysis_output) /\ csv_data \notin {None, Unset})
    /\ analysis_output = None =>
          (conversation_history = <<>> /\ followup_count = 0)

\* the second analysis of the session is shown and a follow-up can be asked
C19_Witness ==
    /\ pc = "idle"
    /\ Truthy(analysis_output)
    /\ "followup" \in shown
    /\ num_threads = 2
    /\ csv_data = CsvTexts["2025-02"]

====
